---- MODULE Spec2Model ----
(***************************************************************************)
(* Model of the authentication bridge and the startup path of the          *)
(* AI Virtual Assistant backend:                                           *)
(*   backend/api/llamastack.py   token source and header normalisation     *)
(*   backend/routes/validate.py  POST /validate and POST /validate/test    *)
(*   backend/main.py             readiness gate and startup orchestrator    *)
(*                                                                         *)
(* Three specifications share the variables:                               *)
(*   Spec         one call of a request-level operation                    *)
(*   GateSpec     one call of wait_for_service_ready with drawn arguments  *)
(*   StartupSpec  one run of after_serving_starts                          *)
(***************************************************************************)
EXTENDS Integers, Sequences, FiniteSets, TLC

VARIABLES
    \* ---- request-level operations ----
    op,             \* the operation being executed
    pc,             \* its control point
    api_key,        \* AuthRequest.api_key of POST /validate
    request,        \* the inbound request's headers mapping, or None
    sa_file,        \* the mounted service-account token file
    admin_username, \* os.getenv("ADMIN_USERNAME")
    headers,        \* the outbound header set built so far
    call_exc,       \* what the outbound HTTP call raised, if it raised
    response,       \* the outbound call's response, if one was obtained
    looked_up,      \* get_user_from_headers has returned
    user,           \* the user record it returned, or None
    result,         \* how the operation ended
    \* ---- readiness gate (wait_for_service_ready) ----
    gpc,              \* control point of the gate
    now,              \* time.time()
    start_time,       \* the gate's local start_time
    timeout_seconds,  \* the gate's arguments
    interval_seconds,
    npolls,           \* number of read_namespaced_endpoints calls made
    saw_ready,        \* some poll observed a subset with an address
    gate_result,      \* "none", "Ready", "TimedOut" or "Raised"
    \* ---- startup orchestrator (after_serving_starts) ----
    spc,            \* control point of the orchestrator: <<phase, routine>>
    invoked,        \* the sync routines invoked so far, in order
    running,        \* the sync routines in progress
    sync_outcome,   \* per routine: "none", "running", "ok" or "raised"
    sessions,       \* number of database sessions opened
    session_open,   \* a session is currently open
    log,            \* the labels logged by logger.error / print
    startup_result, \* "none", "returned", or what raised out of it
    serving,        \* the HTTP server is serving
    \* ---- agent adapters (backend/agents.py) ----
    agent_id_arg,   \* the agent_id argument of the constructor
    agent,          \* the constructed object
    \* ---- application boot and the event loop (backend/main.py) ----
    app_phase,      \* "import", "startup", "serving" (or "idle")
    tasks_created,  \* asyncio.create_task(wait_until_serving()) calls made
    attempts,       \* self-check polls made by wait_until_serving
    self_check_ok,  \* a self-check poll returned 200
    inbound,        \* an inbound HTTP request: "none", "pending", "handled"
    \* ---- locals kept for the record ----
    reply_body,     \* the body of the reply to validate_test's POST
    last_poll,      \* what the gate's latest poll did
    namespace       \* get_incluster_namespace()

reqVars == <<op, pc, api_key, request, sa_file, admin_username, headers,
             call_exc, response, looked_up, user, result>>
gateVars == <<gpc, now, start_time, timeout_seconds, interval_seconds, npolls,
              saw_ready, gate_result>>
startupVars == <<spc, invoked, running, sync_outcome, sessions, session_open,
                 log, startup_result, serving>>
agentVars == <<agent_id_arg, agent>>
bootVars == <<app_phase, tasks_created, attempts, self_check_ok, inbound>>
moreVars == <<agentVars, bootVars, reply_body, last_poll, namespace>>
vars == <<reqVars, gateVars, startupVars, moreVars>>

(***************************************************************************)
(* Bounds of the model.                                                    *)
(***************************************************************************)
MaxTokenLen == 3    \* longest token, in symbols
MaxTimeout == 10    \* largest timeout_seconds drawn in GateSpec
MaxInterval == 2    \* largest interval_seconds drawn in GateSpec
MaxOversleep == 1   \* time.sleep(n) returns after n .. n + MaxOversleep
MaxStartTime == 1   \* the clock reads 0 .. MaxStartTime when the gate starts
MaxSubsets == 2     \* subsets of an Endpoints object
MaxAddresses == 1   \* addresses of one subset

(***************************************************************************)
(* Python values.  An Optional is a sequence of length at most one.        *)
(***************************************************************************)
None == <<>>
Some(v) == <<v>>
Get(opt) == opt[1]

\* A header that is not present: dict.get returns None.
NoHeader == "<None>"
\* Python truthiness of a string-or-None.
Truthy(v) == v # NoHeader /\ v # ""

\* A string is a sequence of symbols; "Bearer" counts as one symbol.
TokenSymbols == {"Bearer", " ", "tok"}
RECURSIVE SeqsUpTo(_, _)
SeqsUpTo(S, n) ==
    IF n = 0 THEN {<<>>}
    ELSE LET shorter == SeqsUpTo(S, n - 1)
         IN  shorter \cup {Append(s, c) : s \in shorter, c \in S}
Tokens == SeqsUpTo(TokenSymbols, MaxTokenLen)

StartsWith(s, prefix) ==
    Len(s) >= Len(prefix) /\ SubSeq(s, 1, Len(prefix)) = prefix

HeaderKeys == {"X-Forwarded-User", "x-forwarded-user",
               "X-Forwarded-Email", "x-forwarded-email"}
HeaderValues == {NoHeader, "", "alice"}
HeaderMaps == [HeaderKeys -> HeaderValues]
EmptyHeaderMap == [k \in HeaderKeys |-> NoHeader]

\* An exception: its class, the HTTP status it carries (0: none) and its
\* message, a sequence of the parts an f-string joins.
Exc(type, status_code, detail) ==
    [type |-> type, status_code |-> status_code, detail |-> detail]

\* The classes each exception class derives from (itself included).
Bases(type) ==
    CASE type = "ReadTimeout" ->
            {"ReadTimeout", "TimeoutException", "Exception"}
      [] type = "ConnectTimeout" ->
            {"ConnectTimeout", "TimeoutException", "Exception"}
      [] type = "ConnectError" -> {"ConnectError", "Exception"}
      [] type = "UnicodeEncodeError" ->
            {"UnicodeEncodeError", "ValueError", "Exception"}
      [] type = "ValidationError" ->
            {"ValidationError", "ValueError", "Exception"}
      [] type = "JSONDecodeError" ->
            {"JSONDecodeError", "ValueError", "Exception"}
      [] OTHER -> {type, "Exception"}
IsInstance(e, cls) == cls \in Bases(e.type)

\* How an operation ended.
NoResult == [kind |-> "none"]
Raised(e) == [kind |-> "raised", exc |-> e]
Returned(v) == [kind |-> "returned", value |-> v]

(***************************************************************************)
(* backend/api/llamastack.py                                               *)
(***************************************************************************)
FileStates ==
    {[state |-> "missing", content |-> <<>>],
     [state |-> "unreadable", content |-> <<>>]}
    \cup {[state |-> "present", content |-> t] : t \in Tokens}

\* get_sa_token: the file's content, or None when open/read raises.
get_sa_token(file) ==
    IF file.state = "present" THEN Some(file.content) ELSE None

BearerScheme == <<"Bearer", " ">>

\* A variant of token_to_auth_header that prefixes the scheme to every token.
token_to_auth_header_AlwaysPrefix(token) == BearerScheme \o token

\* token_to_auth_header on a str: the Authorization header value.
token_to_auth_header(token) ==
    IF ~StartsWith(token, BearerScheme) THEN BearerScheme \o token ELSE token

\* token_to_auth_header on an Optional: None has no startswith.
TokenToAuthHeaderCall(opt) ==
    IF opt = None
    THEN Raised(Exc("AttributeError", 0, <<"'NoneType' object has no attribute 'startswith'">>))
    ELSE Returned(token_to_auth_header(Get(opt)))

\* A variant that reads the canonical key only.
ForwardedHeader_NoFallback(h, canonical, lower) ==
    IF Truthy(h[canonical]) THEN h[canonical] ELSE NoHeader

\* One forwarded header of get_user_headers_from_request: the canonical
\* key's value if truthy, else the lowercase key's; kept only if truthy.
ForwardedHeader(h, canonical, lower) ==
    LET first == h[canonical]
        chosen == IF ~Truthy(first) THEN h[lower] ELSE first
    IN  IF Truthy(chosen) THEN chosen ELSE NoHeader

\* get_user_headers_from_request of an Optional request.
get_user_headers_from_request(req) ==
    IF req = None
    THEN [user |-> NoHeader, email |-> NoHeader]
    ELSE [user |-> ForwardedHeader(Get(req), "X-Forwarded-User", "x-forwarded-user"),
          email |-> ForwardedHeader(Get(req), "X-Forwarded-Email", "x-forwarded-email")]

\* An outbound header set: Authorization and the two forwarded headers.
NoHeaders == [authorization |-> <<>>, user |-> NoHeader, email |-> NoHeader]
MergedHeaders(auth, fwd) ==
    [authorization |-> auth, user |-> fwd.user, email |-> fwd.email]

\* get_client: the client's api_key is set only from a truthy token.
get_client(token, hdrs) ==
    [api_key |-> IF token # None /\ Get(token) # <<>> THEN token ELSE None,
     default_headers |-> hdrs]

(***************************************************************************)
(* backend/routes/validate.py                                              *)
(***************************************************************************)
Statuses == {200, 204, 401, 500}
Users == {[username |-> "alice", role |-> "admin"],
          [username |-> "bob", role |-> "user"]}

\* What the outbound httpx call can raise.
HttpxFailures ==
    {Exc("ReadTimeout", 0, <<"timed out">>),
     Exc("ConnectTimeout", 0, <<"timed out">>),
     Exc("ConnectError", 0, <<"connection refused">>),
     Exc("UnicodeEncodeError", 0, <<"'ascii' codec can't encode character">>),
     Exc("RuntimeError", 0, <<"unexpected">>)}

ServiceError == Exc("ValueError", 0, <<"Authentication service error">>)

\* A variant of the except clauses that wraps a timeout like any other failure.
MakeAuthorizedRequestExcept_WrapTimeout(e) ==
    IF IsInstance(e, "ValueError") THEN e
    ELSE IF IsInstance(e, "Exception") THEN ServiceError
    ELSE e

\* The except clauses of make_authorized_request, in order.
MakeAuthorizedRequestExcept(e) ==
    IF IsInstance(e, "TimeoutException") THEN e
    ELSE IF IsInstance(e, "ValueError") THEN e
    ELSE IF IsInstance(e, "Exception") THEN ServiceError
    ELSE e

\* A variant of the status test that rejects server errors only.
CheckResponse_ServerErrorsOnly(resp) ==
    IF resp = None
    THEN Some(Exc("AttributeError", 0,
                  <<"'NoneType' object has no attribute 'status_code'">>))
    ELSE IF Get(resp).status_code >= 500
    THEN Some(Exc("HTTPException", 403,
                  <<"Authentication failed: ", ToString(Get(resp).status_code)>>))
    ELSE None

\* validate's test of the introspection response: the exception raised, or
\* None when the response passes.
CheckResponse(resp) ==
    IF resp = None
    THEN Some(Exc("AttributeError", 0,
                  <<"'NoneType' object has no attribute 'status_code'">>))
    ELSE IF Get(resp).status_code # 200
    THEN Some(Exc("HTTPException", 403,
                  <<"Authentication failed: ", ToString(Get(resp).status_code)>>))
    ELSE None

\* A variant of the Decision that fills the roles from the username.
AuthResponse_RolesFromUsername(u) ==
    [principal |-> u.username,
     attributes |-> [roles |-> <<u.username>>],
     message |-> "Authentication successful"]

AuthResponse(u) ==
    [principal |-> u.username,
     attributes |-> [roles |-> <<u.role>>],
     message |-> "Authentication successful"]

\* validate after the user lookup returned.
ValidateDecision(found) ==
    IF found = None
    THEN Raised(Exc("HTTPException", 403, <<"User not found">>))
    ELSE Returned(AuthResponse(Get(found)))

\* validate, up to the await of client.get: the outbound headers.
MakeAuthorizedRequest ==
    /\ op = "validate" /\ pc = "start"
    /\ headers' = MergedHeaders(token_to_auth_header(api_key),
                                get_user_headers_from_request(request))
    /\ pc' = "get"
    /\ UNCHANGED <<op, api_key, request, sa_file, admin_username, call_exc,
                   response, looked_up, user, result>>
    /\ UNCHANGED <<gateVars, startupVars, moreVars>>

\* client.get returned a response; validate tests its status.
IntrospectionReturns ==
    /\ op = "validate" /\ pc = "get"
    /\ \E s \in Statuses :
        LET resp == Some([status_code |-> s])
            rejection == CheckResponse(resp)
        IN  /\ response' = resp
            /\ IF rejection # None
               THEN result' = Raised(Get(rejection)) /\ pc' = "done"
               ELSE result' = result /\ pc' = "lookup"
    /\ UNCHANGED <<op, api_key, request, sa_file, admin_username, headers,
                   call_exc, looked_up, user>>
    /\ UNCHANGED <<gateVars, startupVars, moreVars>>

\* client.get raised; the except clauses decide what validate's caller sees.
IntrospectionRaises ==
    /\ op = "validate" /\ pc = "get"
    /\ \E e \in HttpxFailures :
        /\ call_exc' = Some(e)
        /\ result' = Raised(MakeAuthorizedRequestExcept(e))
    /\ pc' = "done"
    /\ UNCHANGED <<op, api_key, request, sa_file, admin_username, headers,
                   response, looked_up, user>>
    /\ UNCHANGED <<gateVars, startupVars, moreVars>>

\* get_user_from_headers returned a user record or None.
LookupReturns ==
    /\ op = "validate" /\ pc = "lookup"
    /\ \E found \in {None} \cup {Some(u) : u \in Users} :
        /\ user' = found
        /\ result' = ValidateDecision(found)
    /\ looked_up' = TRUE
    /\ pc' = "done"
    /\ UNCHANGED <<op, api_key, request, sa_file, admin_username, headers,
                   call_exc, response>>
    /\ UNCHANGED <<gateVars, startupVars, moreVars>>

\* get_user_from_headers raised (the database is unavailable).
LookupRaises ==
    /\ op = "validate" /\ pc = "lookup"
    /\ result' = Raised(Exc("SQLAlchemyError", 0, <<"database error">>))
    /\ pc' = "done"
    /\ UNCHANGED <<op, api_key, request, sa_file, admin_username, headers,
                   call_exc, response, looked_up, user>>
    /\ UNCHANGED <<gateVars, startupVars, moreVars>>

\* The except clauses of validate_test, in order.
ValidateTestExcept(e) ==
    IF IsInstance(e, "TimeoutException") THEN e
    ELSE IF IsInstance(e, "ValueError") THEN e
    ELSE IF IsInstance(e, "Exception") THEN ServiceError
    ELSE e

\* The bodies the peer's reply can carry.
Bodies ==
    {[kind |-> "valid", principal |-> u.username, roles |-> <<u.role>>] : u \in Users}
    \cup {[kind |-> "not_json", principal |-> "", roles |-> <<>>],
          [kind |-> "wrong_shape", principal |-> "", roles |-> <<>>]}

\* A starlette Request looks a header up case-insensitively: both spellings
\* of a key read the same header.
StarletteHeaderMaps ==
    {h \in HeaderMaps :
        /\ h["X-Forwarded-User"] = h["x-forwarded-user"]
        /\ h["X-Forwarded-Email"] = h["x-forwarded-email"]}

InvalidFormat ==
    Exc("ValueError", 0, <<"Invalid authentication response format">>)
AuthenticationFailed(status) ==
    Exc("ValueError", 0, <<"Authentication failed: ", ToString(status)>>)

\* A variant of validate_test that raises nothing of its own on a non-200
\* reply and lets the parsing of its body fail.
ValidateTestReply_NoStatusCheck(status, body) ==
    IF status # 200 \/ body.kind # "valid"
    THEN Raised(ValidateTestExcept(InvalidFormat))
    ELSE Returned([principal |-> body.principal,
                   attributes |-> [roles |-> body.roles]])

\* validate_test, inside the try, once client.post returned.
ValidateTestReply(status, body) ==
    IF status # 200
    THEN Raised(ValidateTestExcept(AuthenticationFailed(status)))
    ELSE IF body.kind # "valid"
    THEN Raised(ValidateTestExcept(InvalidFormat))
    ELSE Returned([principal |-> body.principal,
                   attributes |-> [roles |-> body.roles]])

\* validate_test, up to the await of client.post: the AuthRequest is built
\* from get_sa_token() and the request's headers; AuthRequest declares
\* api_key: str and headers: dict[str, str], and rejects None for either.
ValidateTestBuild ==
    /\ op = "validate_test" /\ pc = "start"
    /\ LET token == get_sa_token(sa_file)
           fwd_user == Get(request)["X-Forwarded-User"]
           fwd_email == Get(request)["X-Forwarded-Email"]
       IN  IF token = None \/ fwd_user = NoHeader \/ fwd_email = NoHeader
           THEN /\ result' = Raised(Exc("ValidationError", 0, <<"validation error for AuthRequest">>))
                /\ pc' = "done"
                /\ UNCHANGED <<api_key, headers>>
           ELSE /\ api_key' = Get(token)
                /\ headers' = [authorization |-> <<>>, user |-> fwd_user, email |-> fwd_email]
                /\ pc' = "post"
                /\ UNCHANGED result
    /\ UNCHANGED <<op, request, sa_file, admin_username, call_exc, response, looked_up, user>>
    /\ UNCHANGED <<gateVars, startupVars, moreVars>>

\* client.post returned a reply.
ValidateTestPostReturns ==
    /\ op = "validate_test" /\ pc = "post"
    /\ \E s \in Statuses, body \in Bodies :
        /\ response' = Some([status_code |-> s])
        /\ reply_body' = body
        /\ result' = ValidateTestReply(s, body)
    /\ pc' = "done"
    /\ UNCHANGED <<op, api_key, request, sa_file, admin_username, headers,
                   call_exc, looked_up, user>>
    /\ UNCHANGED <<agentVars, bootVars, last_poll, namespace>>
    /\ UNCHANGED <<gateVars, startupVars>>

\* client.post raised.
ValidateTestPostRaises ==
    /\ op = "validate_test" /\ pc = "post"
    /\ \E e \in HttpxFailures :
        /\ call_exc' = Some(e)
        /\ result' = Raised(ValidateTestExcept(e))
    /\ pc' = "done"
    /\ UNCHANGED <<op, api_key, request, sa_file, admin_username, headers,
                   response, looked_up, user>>
    /\ UNCHANGED <<gateVars, startupVars, moreVars>>

(***************************************************************************)
(* The callers of get_sa_token in backend/api/llamastack.py                *)
(***************************************************************************)
\* get_client_from_request: synchronous, one step.
GetClientFromRequest ==
    /\ op = "get_client_from_request" /\ pc = "start"
    /\ LET token == get_sa_token(sa_file)
           auth == TokenToAuthHeaderCall(token)
       IN  IF auth.kind = "raised"
           THEN result' = auth /\ UNCHANGED headers
           ELSE /\ headers' = MergedHeaders(auth.value,
                                            get_user_headers_from_request(request))
                /\ result' = Returned(get_client(token, headers'))
    /\ pc' = "done"
    /\ UNCHANGED <<op, api_key, request, sa_file, admin_username, call_exc,
                   response, looked_up, user>>
    /\ UNCHANGED <<gateVars, startupVars, moreVars>>

\* get_sync_client, run when the module is imported (sync_client = ...).
GetSyncClient ==
    /\ op = "get_sync_client" /\ pc = "start"
    /\ LET token == get_sa_token(sa_file)
           auth == TokenToAuthHeaderCall(token)
       IN  IF auth.kind = "raised"
           THEN result' = auth /\ UNCHANGED headers
           ELSE /\ headers' = [authorization |-> auth.value,
                               user |-> admin_username, email |-> NoHeader]
                /\ result' = Returned(get_client(token, headers'))
    /\ pc' = "done"
    /\ UNCHANGED <<op, api_key, request, sa_file, admin_username, call_exc,
                   response, looked_up, user>>
    /\ UNCHANGED <<gateVars, startupVars, moreVars>>

(***************************************************************************)
(* backend/agents.py                                                       *)
(*                                                                         *)
(* An agent object is the record of the attributes its constructor leaves  *)
(* on it; an attribute that was never assigned is None here, and           *)
(* initialized tells whether the base class's initialize() has run.        *)
(***************************************************************************)
AgentClasses == {"ExistingAgent", "ExistingReActAgent"}
AgentIds == {"agent-1", "agent-2"}
ToolLists == {<<>>, <<"builtin::websearch">>}

\* ExistingAgent.__init__: assigns the fields itself, calls neither the
\* parent's __init__ nor initialize(), and its last line, the assignment of
\* self.agent_id, is a comment.
ExistingAgent(agent_id, tools) ==
    [class |-> "ExistingAgent", agent_id |-> None,
     initialized |-> FALSE, tools |-> tools, sessions |-> <<>>]

\* ExistingReActAgent.__init__: the same, and self.agent_id = agent_id.
ExistingReActAgent(agent_id, tools) ==
    [class |-> "ExistingReActAgent", agent_id |-> Some(agent_id),
     initialized |-> FALSE, tools |-> tools, sessions |-> <<>>]

\* ExistingAgent(client, agent_id, tools=...) or
\* ExistingReActAgent(client, agent_id, tools=...).
ConstructAgent ==
    /\ op \in AgentClasses /\ pc = "start"
    /\ \E tools \in ToolLists :
          agent' = IF op = "ExistingAgent"
                   THEN ExistingAgent(agent_id_arg, tools)
                   ELSE ExistingReActAgent(agent_id_arg, tools)
    /\ pc' = "done"
    /\ UNCHANGED <<op, api_key, request, sa_file, admin_username, headers,
                   call_exc, response, looked_up, user, result>>
    /\ UNCHANGED <<agent_id_arg, bootVars, reply_body, last_poll, namespace>>
    /\ UNCHANGED <<gateVars, startupVars>>

(***************************************************************************)
(* Spec: one call of a request-level operation.                            *)
(***************************************************************************)
Ops == {"validate", "validate_test", "get_client_from_request", "get_sync_client",
        "ExistingAgent", "ExistingReActAgent"}
NoFile == [state |-> "missing", content |-> <<>>]

GateIdle ==
    /\ gpc = "idle" /\ now = 0 /\ start_time = 0
    /\ timeout_seconds = 0 /\ interval_seconds = 0
    /\ npolls = 0 /\ saw_ready = FALSE /\ gate_result = "none"

SyncRoutines == {"mcp_servers", "model_servers", "knowledge_bases"}

StartupIdle ==
    /\ spc = <<"idle", "">> /\ invoked = <<>> /\ running = {}
    /\ sync_outcome = [r \in SyncRoutines |-> "none"]
    /\ sessions = 0 /\ session_open = FALSE /\ log = <<>>
    /\ startup_result = "none" /\ serving = TRUE

\* Values of the locals that no call has set yet.
NoAgent == [class |-> "none", agent_id |-> None, initialized |-> FALSE,
            tools |-> <<>>, sessions |-> <<>>]
NoBody == [kind |-> "none", principal |-> "", roles |-> <<>>]
NoPoll == [kind |-> "none", status |-> 0, ready |-> FALSE]

MoreIdle ==
    /\ agent_id_arg = "" /\ agent = NoAgent
    /\ app_phase = "idle" /\ tasks_created = 0
    /\ attempts = 0 /\ self_check_ok = FALSE /\ inbound = "none"
    /\ reply_body = NoBody /\ last_poll = NoPoll /\ namespace = ""

ReqIdle ==
    /\ op = "none" /\ pc = "idle" /\ api_key = <<>> /\ request = None
    /\ sa_file = NoFile /\ admin_username = NoHeader /\ headers = NoHeaders
    /\ call_exc = None /\ response = None /\ looked_up = FALSE
    /\ user = None /\ result = NoResult

Init ==
    /\ op \in Ops
    /\ pc = "start"
    /\ headers = NoHeaders /\ call_exc = None /\ response = None
    /\ looked_up = FALSE /\ user = None /\ result = NoResult
    /\ CASE op = "validate" ->
              /\ api_key \in Tokens
              /\ request \in {Some(h) : h \in HeaderMaps}
              /\ sa_file = NoFile /\ admin_username = NoHeader
         [] op = "validate_test" ->
              /\ api_key = <<>>
              /\ request \in {Some(h) : h \in StarletteHeaderMaps}
              /\ sa_file \in FileStates /\ admin_username = NoHeader
         [] op = "get_client_from_request" ->
              /\ api_key = <<>>
              /\ request \in {None} \cup {Some(h) : h \in StarletteHeaderMaps}
              /\ sa_file \in FileStates /\ admin_username = NoHeader
         [] op = "get_sync_client" ->
              /\ api_key = <<>>
              /\ request = None
              /\ sa_file \in FileStates /\ admin_username \in {NoHeader, "admin"}
         [] op \in AgentClasses ->
              /\ api_key = <<>>
              /\ request = None
              /\ sa_file = NoFile /\ admin_username = NoHeader
    /\ IF op \in AgentClasses THEN agent_id_arg \in AgentIds ELSE agent_id_arg = ""
    /\ agent = NoAgent
    /\ GateIdle
    /\ StartupIdle
    /\ app_phase = "idle" /\ tasks_created = 0
    /\ attempts = 0 /\ self_check_ok = FALSE /\ inbound = "none"
    /\ reply_body = NoBody /\ last_poll = NoPoll /\ namespace = ""

Next ==
    \/ MakeAuthorizedRequest
    \/ IntrospectionReturns
    \/ IntrospectionRaises
    \/ LookupReturns
    \/ LookupRaises
    \/ ValidateTestBuild
    \/ ValidateTestPostReturns
    \/ ValidateTestPostRaises
    \/ GetClientFromRequest
    \/ GetSyncClient
    \/ ConstructAgent

Spec == Init /\ [][Next]_vars

(***************************************************************************)
(* backend/main.py: wait_for_service_ready                                 *)
(*                                                                         *)
(* The clock advances while the gate sleeps: time.sleep(n) returns after   *)
(* at least n.  A call of the cluster API takes no time on this clock.     *)
(***************************************************************************)
DefaultTimeoutSeconds == 300
DefaultIntervalSeconds == 5

\* endpoints.subsets as the sequence of each subset's number of addresses;
\* a subsets of None and an empty list are the same empty sequence.
SubsetLists == SeqsUpTo(0 .. MaxAddresses, MaxSubsets)

\* What one call of read_namespaced_endpoints can do.
PollOutcomes ==
    {[kind |-> "endpoints", subsets |-> ss, status |-> 200] : ss \in SubsetLists}
    \cup {[kind |-> "ApiException", subsets |-> <<>>, status |-> st] : st \in {404, 500}}
    \cup {[kind |-> "Exception", subsets |-> <<>>, status |-> 0]}

\* The number of addresses an Endpoints object lists.
RECURSIVE TotalAddresses(_)
TotalAddresses(ss) ==
    IF ss = <<>> THEN 0 ELSE Head(ss) + TotalAddresses(Tail(ss))

\* A variant of the readiness test that looks at the subsets only.
EndpointsReady_AnySubset(subsets) == Len(subsets) > 0

\* The gate's test of an Endpoints object: some subset has addresses.
EndpointsReady(subsets) ==
    /\ Len(subsets) > 0
    /\ \E i \in 1 .. Len(subsets) : subsets[i] > 0

\* A variant of the loop condition that forgets the start time.
LoopContinues_NoStartTime(t, start, timeout) == t < timeout

\* The while condition: time.time() - start_time < timeout_seconds.
LoopContinues(t, start, timeout) == t - start < timeout

\* A variant of the loop body that lets an ApiException other than 404 out.
PollStep_RaiseOnServerError(o) ==
    IF o.kind = "endpoints"
    THEN IF EndpointsReady(o.subsets) THEN "Ready" ELSE "Sleep"
    ELSE IF o.kind = "ApiException" /\ o.status = 404 THEN "Sleep"
    ELSE "Raised"

\* What the loop body does with one poll: return True, sleep, or let the
\* exception out (only client.ApiException is caught).
PollStep(o) ==
    IF o.kind = "endpoints"
    THEN IF EndpointsReady(o.subsets) THEN "Ready" ELSE "Sleep"
    ELSE IF o.kind = "ApiException" THEN "Sleep"
    ELSE "Raised"

\* start_time = time.time()
GateStart ==
    /\ gpc = "start"
    /\ start_time' = now
    /\ gpc' = "loop"
    /\ UNCHANGED <<now, timeout_seconds, interval_seconds, npolls, saw_ready,
                   gate_result>>
    /\ UNCHANGED <<reqVars, startupVars, moreVars>>

\* The loop condition holds and the body polls the endpoints.
GatePoll ==
    /\ gpc = "loop"
    /\ LoopContinues(now, start_time, timeout_seconds)
    /\ \E o \in PollOutcomes :
        /\ saw_ready' = (saw_ready \/ (o.kind = "endpoints" /\ TotalAddresses(o.subsets) > 0))
        /\ CASE PollStep(o) = "Ready" -> gate_result' = "Ready" /\ gpc' = "done"
             [] PollStep(o) = "Sleep" -> gate_result' = gate_result /\ gpc' = "sleep"
             [] OTHER -> gate_result' = "Raised" /\ gpc' = "done"
        /\ last_poll' = [kind |-> o.kind, status |-> o.status,
                         ready |-> TotalAddresses(o.subsets) > 0]
    /\ npolls' = npolls + 1
    /\ UNCHANGED <<now, start_time, timeout_seconds, interval_seconds>>
    /\ UNCHANGED <<reqVars, startupVars, agentVars, bootVars, reply_body,
                   namespace>>

\* time.sleep(interval_seconds)
GateSleep ==
    /\ gpc = "sleep"
    /\ \E d \in interval_seconds .. interval_seconds + MaxOversleep :
        now' = now + d
    /\ gpc' = "loop"
    /\ UNCHANGED <<start_time, timeout_seconds, interval_seconds, npolls,
                   saw_ready, gate_result>>
    /\ UNCHANGED <<reqVars, startupVars, moreVars>>

\* The loop condition fails: return False.
GateTimeout ==
    /\ gpc = "loop"
    /\ ~LoopContinues(now, start_time, timeout_seconds)
    /\ gate_result' = "TimedOut"
    /\ gpc' = "done"
    /\ UNCHANGED <<now, start_time, timeout_seconds, interval_seconds, npolls,
                   saw_ready>>
    /\ UNCHANGED <<reqVars, startupVars, moreVars>>

(***************************************************************************)
(* GateSpec: one call of wait_for_service_ready(name, namespace, timeout,  *)
(* interval) with the arguments and the clock drawn from small sets.       *)
(***************************************************************************)
GateInit ==
    /\ ReqIdle
    /\ StartupIdle
    /\ MoreIdle
    /\ gpc = "start"
    /\ now \in 0 .. MaxStartTime
    /\ start_time = 0
    /\ timeout_seconds \in -1 .. MaxTimeout
    /\ interval_seconds \in 1 .. MaxInterval
    /\ npolls = 0 /\ saw_ready = FALSE /\ gate_result = "none"

GateNext ==
    \/ GateStart
    \/ GatePoll
    \/ GateSleep
    \/ GateTimeout

GateSpec == GateInit /\ [][GateNext]_vars

(***************************************************************************)
(* backend/main.py: after_serving_starts                                   *)
(***************************************************************************)
SyncOrder == <<"mcp_servers", "model_servers", "knowledge_bases">>
IndexOf(r) == CHOOSE i \in 1 .. Len(SyncOrder) : SyncOrder[i] = r

\* What logger.error writes when a block's except clause catches.
FailureLabel(r) ==
    CASE r = "mcp_servers" -> "Failed to sync MCP servers on startup"
      [] r = "model_servers" -> "Failed to sync model servers on startup"
      [] r = "knowledge_bases" -> "Failed to sync knowledge bases on startup"

InLog(line) == \E i \in 1 .. Len(log) : log[i] = line

\* Where control goes after the block of routine r: the next block, or the
\* end of the function.
AfterBlock(r) ==
    IF IndexOf(r) < Len(SyncOrder)
    THEN <<"open", SyncOrder[IndexOf(r) + 1]>>
    ELSE <<"done", "">>
ResultAfterBlock(r) ==
    IF IndexOf(r) < Len(SyncOrder) THEN "none" ELSE "returned"

\* A variant of the branch on the gate's result that is taken on any return.
ProceedsToSync_Always(gr) == gr \in {"Ready", "TimedOut"}

\* if wait_for_service_ready(service_name, namespace):
ProceedsToSync(gr) == gr = "Ready"

\* A variant in which only the first block catches its routine's failure.
SyncFailureCaught_McpOnly(r) == r = "mcp_servers"

\* Every block's try encloses the await of its routine.
SyncFailureCaught(r) == r \in {"mcp_servers", "model_servers", "knowledge_bases"}

\* Only the first block's try encloses `async with AsyncSessionLocal()`.
SessionFailureCaught(r) == r = "mcp_servers"

\* A variant in which a block starts without awaiting the block before it.
MayStart_NoAwait(r) ==
    \/ spc = <<"open", r>>
    \/ IndexOf(r) > 1 /\ spc = <<"sync", SyncOrder[IndexOf(r) - 1]>>

\* A block is entered when control reaches it: each await completes before
\* the statement after it runs.
MayStart(r) == spc = <<"open", r>>

\* await asyncio.sleep(1), then the print.
StartupDelay ==
    /\ spc = <<"start", "">>
    /\ \E d \in 1 .. 1 + MaxOversleep : now' = now + d
    /\ log' = Append(log, "Post-startup task: FastAPI is now serving!")
    /\ spc' = <<"call_gate", "">>
    /\ UNCHANGED <<invoked, running, sync_outcome, sessions, session_open,
                   startup_result, serving>>
    /\ UNCHANGED <<gpc, start_time, timeout_seconds, interval_seconds, npolls,
                   saw_ready, gate_result>>
    /\ UNCHANGED <<reqVars, moreVars>>

\* The namespace file of the pod's service account.
NamespaceFiles ==
    {[state |-> "missing", content |-> ""],
     [state |-> "present", content |-> "assistant"]}

\* get_incluster_namespace: the file's content, or "default" when reading it
\* raises; the failure is swallowed without a log line.
get_incluster_namespace(file) ==
    IF file.state = "present" THEN file.content ELSE "default"

\* namespace = get_incluster_namespace(); the gate is called with its
\* default timeout and interval.
CallGate ==
    /\ spc = <<"call_gate", "">>
    /\ gpc = "idle"
    /\ timeout_seconds' = DefaultTimeoutSeconds
    /\ interval_seconds' = DefaultIntervalSeconds
    /\ gpc' = "start"
    /\ spc' = <<"gate", "">>
    /\ UNCHANGED <<now, start_time, npolls, saw_ready, gate_result>>
    /\ \E file \in NamespaceFiles : namespace' = get_incluster_namespace(file)
    /\ UNCHANGED <<invoked, running, sync_outcome, sessions, session_open, log,
                   startup_result, serving>>
    /\ UNCHANGED <<reqVars, agentVars, bootVars, reply_body, last_poll>>

\* The gate returned (or raised) into after_serving_starts; its locals are
\* gone.
GateReturned ==
    /\ spc = <<"gate", "">>
    /\ gpc = "done"
    /\ IF gate_result = "Raised"
       THEN /\ spc' = <<"done", "">>
            /\ startup_result' = "raised_gate"
            /\ UNCHANGED log
       ELSE IF ProceedsToSync(gate_result)
       THEN /\ spc' = <<"open", SyncOrder[1]>>
            /\ log' = Append(log, "Service is ready, proceeding with operations.")
            /\ UNCHANGED startup_result
       ELSE /\ spc' = <<"done", "">>
            /\ log' = Append(log, "Service did not become ready within the timeout.")
            /\ startup_result' = "returned"
    /\ gpc' = "idle"
    /\ start_time' = 0 /\ npolls' = 0
    /\ timeout_seconds' = 0 /\ interval_seconds' = 0
    /\ UNCHANGED <<now, saw_ready, gate_result>>
    /\ namespace' = "" /\ last_poll' = NoPoll
    /\ UNCHANGED <<invoked, running, sync_outcome, sessions, session_open, serving>>
    /\ UNCHANGED <<reqVars, agentVars, bootVars, reply_body>>

\* async with AsyncSessionLocal() as session: await <routine>(session)
OpenSession(r) ==
    /\ MayStart(r)
    /\ sessions' = sessions + 1
    /\ session_open' = TRUE
    /\ invoked' = Append(invoked, r)
    /\ running' = running \cup {r}
    /\ sync_outcome' = [sync_outcome EXCEPT ![r] = "running"]
    /\ spc' = <<"sync", r>>
    /\ UNCHANGED <<log, startup_result, serving>>
    /\ UNCHANGED <<gateVars, reqVars, moreVars>>

\* AsyncSessionLocal() raised: logged by the first block, let out by the
\* other two.
OpenSessionFails(r) ==
    /\ spc = <<"open", r>>
    /\ IF SessionFailureCaught(r)
       THEN /\ log' = Append(log, FailureLabel(r))
            /\ spc' = AfterBlock(r)
            /\ startup_result' = ResultAfterBlock(r)
       ELSE /\ spc' = <<"done", "">>
            /\ startup_result' = "raised_session"
            /\ UNCHANGED log
    /\ UNCHANGED <<invoked, running, sync_outcome, sessions, session_open, serving>>
    /\ UNCHANGED <<gateVars, reqVars, moreVars>>

\* The routine returned; the session is released.
SyncReturns(r) ==
    /\ spc = <<"sync", r>>
    /\ sync_outcome' = [sync_outcome EXCEPT ![r] = "ok"]
    /\ running' = running \ {r}
    /\ session_open' = FALSE
    /\ spc' = AfterBlock(r)
    /\ startup_result' = ResultAfterBlock(r)
    /\ UNCHANGED <<invoked, sessions, log, serving>>
    /\ UNCHANGED <<gateVars, reqVars, moreVars>>

\* The routine raised an Exception; the session is released.
SyncRaises(r) ==
    /\ spc = <<"sync", r>>
    /\ sync_outcome' = [sync_outcome EXCEPT ![r] = "raised"]
    /\ running' = running \ {r}
    /\ session_open' = FALSE
    /\ IF SyncFailureCaught(r)
       THEN /\ log' = Append(log, FailureLabel(r))
            /\ spc' = AfterBlock(r)
            /\ startup_result' = ResultAfterBlock(r)
       ELSE /\ spc' = <<"done", "">>
            /\ startup_result' = "raised_sync"
            /\ UNCHANGED log
    /\ UNCHANGED <<invoked, sessions, serving>>
    /\ UNCHANGED <<gateVars, reqVars, moreVars>>

(***************************************************************************)
(* StartupSpec: one run of after_serving_starts.                           *)
(***************************************************************************)
StartupInit ==
    /\ ReqIdle
    /\ GateIdle
    /\ MoreIdle
    /\ spc = <<"start", "">> /\ invoked = <<>> /\ running = {}
    /\ sync_outcome = [r \in SyncRoutines |-> "none"]
    /\ sessions = 0 /\ session_open = FALSE /\ log = <<>>
    /\ startup_result = "none" /\ serving = TRUE

StartupNext ==
    \/ StartupDelay
    \/ CallGate
    \/ GateStart
    \/ GatePoll
    \/ GateSleep
    \/ GateTimeout
    \/ GateReturned
    \/ \E r \in SyncRoutines : OpenSession(r)
    \/ \E r \in SyncRoutines : OpenSessionFails(r)
    \/ \E r \in SyncRoutines : SyncReturns(r)
    \/ \E r \in SyncRoutines : SyncRaises(r)

StartupSpec == StartupInit /\ [][StartupNext]_vars

(***************************************************************************)
(* backend/main.py: the application object and the event loop              *)
(***************************************************************************)
\* app = FastAPI(): the application is built without the lifespan that
\* creates the startup task.
AppLifespan == "none"

\* time.sleep(interval_seconds) is a blocking call: it does not hand the
\* event loop back while the gate waits.
GateSleepYields == FALSE

\* The startup task holds the event loop's only thread from the moment it is
\* resumed until its next await: through the call of the synchronous gate and
\* up to the await of a sync routine.
LoopBusy ==
    \/ spc[1] \in {"call_gate", "open"}
    \/ spc[1] = "gate" /\ ~(gpc = "sleep" /\ GateSleepYields)

\* Importing backend.main imports the routes, which import
\* backend/api/llamastack.py and so run sync_client = get_sync_client();
\* then app = FastAPI().
AppImport ==
    /\ app_phase = "import"
    /\ app_phase' =
          IF TokenToAuthHeaderCall(get_sa_token(sa_file)).kind = "raised"
          THEN "import_failed"
          ELSE "startup"
    /\ UNCHANGED <<tasks_created, attempts, self_check_ok, inbound>>
    /\ UNCHANGED <<agentVars, reply_body, last_poll, namespace>>
    /\ UNCHANGED <<reqVars, gateVars, startupVars>>

\* The server starts the application: its lifespan, if it has one, runs up
\* to its yield and creates the startup task.
RunLifespan ==
    /\ app_phase = "startup"
    /\ tasks_created' =
          IF AppLifespan = "lifespan" THEN tasks_created + 1 ELSE tasks_created
    /\ app_phase' = "started"
    /\ UNCHANGED <<attempts, self_check_ok, inbound>>
    /\ UNCHANGED <<agentVars, reply_body, last_poll, namespace>>
    /\ UNCHANGED <<reqVars, gateVars, startupVars>>

\* The server binds its socket and accepts connections.
ListenerUp ==
    /\ app_phase = "started"
    /\ app_phase' = "serving"
    /\ serving' = TRUE
    /\ UNCHANGED <<tasks_created, attempts, self_check_ok, inbound>>
    /\ UNCHANGED <<agentVars, reply_body, last_poll, namespace>>
    /\ UNCHANGED <<spc, invoked, running, sync_outcome, sessions, session_open,
                   log, startup_result>>
    /\ UNCHANGED <<reqVars, gateVars>>

\* An HTTP request reaches the listening socket.
RequestArrives ==
    /\ app_phase = "serving" /\ serving
    /\ inbound = "none"
    /\ inbound' = "pending"
    /\ UNCHANGED <<app_phase, tasks_created, attempts, self_check_ok>>
    /\ UNCHANGED <<agentVars, reply_body, last_poll, namespace>>
    /\ UNCHANGED <<reqVars, gateVars, startupVars>>

\* The event loop runs the request's handler; it can only when no other task
\* holds its thread.
HandleInbound ==
    /\ inbound = "pending"
    /\ ~LoopBusy
    /\ inbound' = "handled"
    /\ UNCHANGED <<app_phase, tasks_created, attempts, self_check_ok>>
    /\ UNCHANGED <<agentVars, reply_body, last_poll, namespace>>
    /\ UNCHANGED <<reqVars, gateVars, startupVars>>

(***************************************************************************)
(* AppSpec: the process from the import of backend.main on.                *)
(***************************************************************************)
AppInit ==
    /\ op = "none" /\ pc = "idle" /\ api_key = <<>> /\ request = None
    /\ sa_file \in FileStates
    /\ admin_username \in {NoHeader, "admin"}
    /\ headers = NoHeaders
    /\ call_exc = None /\ response = None /\ looked_up = FALSE
    /\ user = None /\ result = NoResult
    /\ GateIdle
    /\ spc = <<"idle", "">> /\ invoked = <<>> /\ running = {}
    /\ sync_outcome = [r \in SyncRoutines |-> "none"]
    /\ sessions = 0 /\ session_open = FALSE /\ log = <<>>
    /\ startup_result = "none" /\ serving = FALSE
    /\ agent_id_arg = "" /\ agent = NoAgent
    /\ app_phase = "import" /\ tasks_created = 0
    /\ attempts = 0 /\ self_check_ok = FALSE /\ inbound = "none"
    /\ reply_body = NoBody /\ last_poll = NoPoll /\ namespace = ""

AppNext ==
    \/ AppImport
    \/ RunLifespan
    \/ ListenerUp
    \/ RequestArrives
    \/ HandleInbound

AppSpec == AppInit /\ [][AppNext]_vars

(***************************************************************************)
(* backend/main.py: wait_until_serving                                     *)
(***************************************************************************)
SelfCheckAttempts == 20

\* What one GET of the server's own root URL can do: a status, or an
\* exception (0); while the listener is down the connection is refused.
SelfCheckOutcomes == IF serving THEN {200, 404, 0} ELSE {0}

\* One pass of the for loop up to its sleep: break on a 200, swallow an
\* exception.
SelfCheckPoll ==
    /\ spc = <<"selfcheck", "">>
    /\ attempts < SelfCheckAttempts
    /\ attempts' = attempts + 1
    /\ \E st \in SelfCheckOutcomes :
          IF st = 200
          THEN self_check_ok' = TRUE /\ spc' = <<"selfcheck_done", "">>
          ELSE self_check_ok' = self_check_ok /\ spc' = <<"selfcheck_sleep", "">>
    /\ UNCHANGED <<invoked, running, sync_outcome, sessions, session_open, log,
                   startup_result, serving>>
    /\ UNCHANGED <<app_phase, tasks_created, inbound>>
    /\ UNCHANGED <<agentVars, reply_body, last_poll, namespace>>
    /\ UNCHANGED <<reqVars, gateVars>>

\* await asyncio.sleep(0.5): half a second, not counted on the gate's clock
\* of whole seconds.
SelfCheckSleep ==
    /\ spc = <<"selfcheck_sleep", "">>
    /\ spc' = <<"selfcheck", "">>
    /\ UNCHANGED <<invoked, running, sync_outcome, sessions, session_open, log,
                   startup_result, serving>>
    /\ UNCHANGED <<reqVars, gateVars, moreVars>>

\* range(20) is used up: the loop ends without a break.
SelfCheckExhausted ==
    /\ spc = <<"selfcheck", "">>
    /\ attempts = SelfCheckAttempts
    /\ spc' = <<"selfcheck_done", "">>
    /\ UNCHANGED <<invoked, running, sync_outcome, sessions, session_open, log,
                   startup_result, serving>>
    /\ UNCHANGED <<reqVars, gateVars, moreVars>>

\* After the loop, however it ended: the print, then
\* await after_serving_starts().
EnterAfterServingStarts ==
    /\ spc = <<"selfcheck_done", "">>
    /\ log' = Append(log, "Server is now accepting connections!")
    /\ spc' = <<"start", "">>
    /\ UNCHANGED <<invoked, running, sync_outcome, sessions, session_open,
                   startup_result, serving>>
    /\ UNCHANGED <<reqVars, gateVars, moreVars>>

(***************************************************************************)
(* SelfCheckSpec: the task the lifespan would create, from the start of    *)
(* wait_until_serving to the orchestrator's call of the gate.              *)
(***************************************************************************)
SelfCheckInit ==
    /\ ReqIdle
    /\ GateIdle
    /\ spc = <<"selfcheck", "">> /\ invoked = <<>> /\ running = {}
    /\ sync_outcome = [r \in SyncRoutines |-> "none"]
    /\ sessions = 0 /\ session_open = FALSE /\ log = <<>>
    /\ startup_result = "none" /\ serving = FALSE
    /\ agent_id_arg = "" /\ agent = NoAgent
    /\ app_phase = "started" /\ tasks_created = 1
    /\ attempts = 0 /\ self_check_ok = FALSE /\ inbound = "none"
    /\ reply_body = NoBody /\ last_poll = NoPoll /\ namespace = ""

SelfCheckNext ==
    \/ ListenerUp
    \/ SelfCheckPoll
    \/ SelfCheckSleep
    \/ SelfCheckExhausted
    \/ EnterAfterServingStarts
    \/ StartupDelay
    \/ CallGate

SelfCheckSpec == SelfCheckInit /\ [][SelfCheckNext]_vars

(***************************************************************************)
(* ServingSpec: one run of after_serving_starts as a task of the serving   *)
(* application's event loop, with an inbound request.                      *)
(***************************************************************************)
ServingInit ==
    /\ ReqIdle
    /\ GateIdle
    /\ spc = <<"start", "">> /\ invoked = <<>> /\ running = {}
    /\ sync_outcome = [r \in SyncRoutines |-> "none"]
    /\ sessions = 0 /\ session_open = FALSE /\ log = <<>>
    /\ startup_result = "none" /\ serving = TRUE
    /\ agent_id_arg = "" /\ agent = NoAgent
    /\ app_phase = "serving" /\ tasks_created = 1
    /\ attempts = 0 /\ self_check_ok = FALSE /\ inbound = "none"
    /\ reply_body = NoBody /\ last_poll = NoPoll /\ namespace = ""

ServingNext ==
    \/ StartupNext
    \/ RequestArrives
    \/ HandleInbound

ServingSpec == ServingInit /\ [][ServingNext]_vars

(***************************************************************************)
(* Properties of POST /validate (checked under Spec).                      *)
(***************************************************************************)
IntrospectionOk == response # None /\ Get(response).status_code = 200
UserFound == looked_up /\ user # None
IsDecision(v) ==
    /\ v.principal \in {u.username : u \in Users}
    /\ v.attributes.roles \in {<<u.role>> : u \in Users}
    /\ v.message = "Authentication successful"
IsRejection(r, detail) ==
    /\ r.kind = "raised"
    /\ r.exc.type = "HTTPException"
    /\ r.exc.status_code = 403
    /\ r.exc.detail = detail

\* C1: validate returns a Decision only if the introspection call returned
\* status 200 and the user lookup returned a record; in every other case it
\* ends raising, and nothing is returned before it ends.
C1_DecisionOnlyAfterBoth ==
    op = "validate" =>
        /\ result.kind = "returned" =>
              IntrospectionOk /\ UserFound /\ IsDecision(result.value)
        /\ pc = "done" /\ ~(IntrospectionOk /\ UserFound) => result.kind = "raised"
        /\ pc # "done" => result = NoResult

C1_Witness ==
    op = "validate" /\ pc = "done" /\ result.kind = "returned"

\* C2: when introspection returned 200 and the lookup found u, validate
\* returns a Decision with principal u.username and roles [u.role].
C2_DecisionFromUser ==
    op = "validate" /\ pc = "done" /\ IntrospectionOk /\ UserFound =>
        /\ result.kind = "returned"
        /\ result.value.principal = Get(user).username
        /\ result.value.attributes.roles = <<Get(user).role>>

C2_Witness ==
    /\ op = "validate" /\ pc = "done" /\ IntrospectionOk
    /\ user = Some([username |-> "alice", role |-> "admin"])
    /\ result.kind = "returned"
    /\ result.value.principal = "alice"
    /\ result.value.attributes.roles = <<"admin">>

\* C3: validate rejects with 403 and a message embedding the received status
\* whenever the introspection response has a non-200 status or no response was
\* obtained, and with 403 and a different message when introspection returned
\* 200 but the lookup found no user.
C3_RejectionsAre403 ==
    op = "validate" /\ pc = "done" =>
        /\ response = None =>
              /\ result.kind = "raised"
              /\ result.exc.type = "HTTPException"
              /\ result.exc.status_code = 403
              /\ result.exc.detail[1] = "Authentication failed: "
        /\ response # None /\ Get(response).status_code # 200 =>
              IsRejection(result, <<"Authentication failed: ",
                                    ToString(Get(response).status_code)>>)
        /\ IntrospectionOk /\ looked_up /\ user = None =>
              /\ IsRejection(result, <<"User not found">>)
              /\ result.exc.detail[1] # "Authentication failed: "

\* C4 as stated: a timeout of the outbound call reaches the caller as the
\* timeout kind, and every other failure as the generic "Authentication
\* service error", never as its own exception type.
C4_OtherFailuresAreGeneric ==
    op = "validate" /\ call_exc # None =>
        /\ result.kind = "raised"
        /\ IF IsInstance(Get(call_exc), "TimeoutException")
           THEN IsInstance(result.exc, "TimeoutException")
           ELSE result.exc = ServiceError

\* C4 (amended): a timeout of the outbound call reaches the caller unchanged,
\* a ValueError raised by the call (such as a UnicodeEncodeError) reaches the
\* caller unchanged too, and every other failure reaches the caller as the
\* generic "Authentication service error".
C4_FailureKinds ==
    op = "validate" /\ call_exc # None =>
        /\ result.kind = "raised"
        /\ IsInstance(Get(call_exc), "TimeoutException") =>
              result.exc = Get(call_exc)
        /\ IsInstance(Get(call_exc), "ValueError") =>
              result.exc = Get(call_exc)
        /\ ~IsInstance(Get(call_exc), "TimeoutException")
              /\ ~IsInstance(Get(call_exc), "ValueError") =>
              result.exc = ServiceError /\ result.exc.type # Get(call_exc).type

C4_Witness ==
    /\ op = "validate" /\ pc = "done"
    /\ call_exc = Some(Exc("ReadTimeout", 0, <<"timed out">>))
    /\ result = Raised(Exc("ReadTimeout", 0, <<"timed out">>))

\* C5: when the token file is missing or unreadable get_sa_token returns None,
\* and each caller that receives None (get_client_from_request,
\* get_sync_client, validate_test) proceeds instead of raising.
C5_AbsentTokenIsNotFatal ==
    /\ op \in {"get_client_from_request", "get_sync_client", "validate_test"}
    /\ sa_file.state \in {"missing", "unreadable"}
    /\ pc # "start"
    => /\ get_sa_token(sa_file) = None
       /\ result.kind # "raised"

(***************************************************************************)
(* Properties of the readiness gate (checked under GateSpec).              *)
(***************************************************************************)
Elapsed == now - start_time

\* C6: the gate returns Ready exactly when a poll made before the timeout
\* elapsed observed a subset with an address, and it returns at that poll;
\* with interval 1 and timeout 10, a service first ready on poll 4 gives Ready
\* with at least 3 and less than 10 time units elapsed.
C6_ReadyAtFirstReadyPoll ==
    /\ (gate_result = "Ready") = saw_ready
    /\ saw_ready => gpc = "done"
    /\ gate_result = "Ready" => Elapsed < timeout_seconds
    /\ gate_result = "Ready" /\ timeout_seconds = 10 /\ interval_seconds = 1
          /\ npolls = 4 => Elapsed >= 3 /\ Elapsed < 10

C6_Witness ==
    /\ gpc = "done" /\ gate_result = "Ready" /\ saw_ready
    /\ timeout_seconds = 10 /\ interval_seconds = 1
    /\ npolls = 4 /\ Elapsed = 3

\* C7: the gate returns TimedOut only once the elapsed time has reached the
\* timeout and no poll has observed a ready address; a never-ready service with
\* timeout 2 and interval 1 times out at 2 time units, or as much later as the
\* last sleep overran.
C7_TimedOutNotEarlier ==
    /\ gate_result = "TimedOut" => Elapsed >= timeout_seconds /\ ~saw_ready
    /\ gate_result = "TimedOut" /\ timeout_seconds = 2 /\ interval_seconds = 1
          => Elapsed >= 2 /\ Elapsed <= 2 + MaxOversleep

C7_Witness ==
    /\ gpc = "done" /\ gate_result = "TimedOut"
    /\ timeout_seconds = 2 /\ interval_seconds = 1
    /\ npolls = 2 /\ Elapsed = 2

(***************************************************************************)
(* Properties of the startup orchestrator (checked under StartupSpec).     *)
(***************************************************************************)
Finished(r) == sync_outcome[r] \in {"ok", "raised"}
Position ==
    CASE spc[1] \in {"open", "sync"} -> IndexOf(spc[2])
      [] spc[1] = "done" -> Len(SyncOrder) + 1
      [] OTHER -> 0

\* C8: once the gate has reported Ready, the failure of a sync routine is
\* caught and logged under the routine's label and control goes on to the
\* blocks after it: no routine's failure ends the orchestrator, and when the
\* model-server sync raised, the knowledge-base sync is executed afterwards
\* (the orchestrator does not return without having invoked it).
C8_SyncFailureIsIsolated ==
    /\ startup_result # "raised_sync"
    /\ \A r \in SyncRoutines :
          sync_outcome[r] = "raised" =>
              /\ gate_result = "Ready"
              /\ InLog(FailureLabel(r))
              /\ Position > IndexOf(r)
    /\ sync_outcome["model_servers"] = "raised" =>
          /\ spc \in {<<"open", "knowledge_bases">>, <<"sync", "knowledge_bases">>,
                      <<"done", "">>}
          /\ startup_result = "returned" =>
                Finished("knowledge_bases")
                /\ invoked[Len(invoked)] = "knowledge_bases"

C8_Witness ==
    /\ spc = <<"done", "">> /\ startup_result = "returned"
    /\ gate_result = "Ready"
    /\ sync_outcome["model_servers"] = "raised"
    /\ sync_outcome["knowledge_bases"] = "ok"
    /\ InLog(FailureLabel("model_servers"))

\* C9: the sync routines start in the order MCP servers, model servers,
\* knowledge bases; when one starts every routine before it in that order is
\* no longer in progress, and no two are ever in progress together.
C9_SyncRoutinesAreSequential ==
    /\ Cardinality(running) <= 1
    /\ \A i, j \in 1 .. Len(invoked) :
          i < j => IndexOf(invoked[i]) < IndexOf(invoked[j])
    /\ \A i, j \in 1 .. Len(invoked) :
          i < j => Finished(invoked[i])
    /\ \A r \in SyncRoutines :
          (r \in running) = (sync_outcome[r] = "running")

C9_Witness ==
    /\ invoked = SyncOrder
    /\ running = {"knowledge_bases"}
    /\ Finished("mcp_servers") /\ Finished("model_servers")

\* C10: if the gate returns TimedOut, no sync routine is invoked, no database
\* session is opened, and the orchestrator returns normally while the server
\* keeps serving.
C10_TimedOutSkipsSync ==
    gate_result = "TimedOut" =>
        /\ invoked = <<>> /\ running = {}
        /\ \A r \in SyncRoutines : sync_outcome[r] = "none"
        /\ sessions = 0 /\ ~session_open
        /\ serving
        /\ spc \in {<<"gate", "">>, <<"done", "">>}
        /\ spc = <<"done", "">> =>
              /\ startup_result = "returned"
              /\ InLog("Service did not become ready within the timeout.")

C10_Witness ==
    /\ gate_result = "TimedOut"
    /\ spc = <<"done", "">> /\ startup_result = "returned"
    /\ sessions = 0 /\ invoked = <<>>

(***************************************************************************)
(* Properties of the application boot (checked under AppSpec) and of the   *)
(* event loop (checked under ServingSpec).                                 *)
(***************************************************************************)
\* C11: on process startup the application launches the startup orchestrator
\* as a background task: once the application serves, the task has been
\* created, and created exactly once.
C11_OrchestratorLaunchedOnce ==
    app_phase = "serving" => tasks_created = 1

\* C12: while the startup task is running, the gate's wait between polls
\* included, the event loop is not blocked: a pending inbound request can be
\* handled without waiting for the gate to return.
C12_GateDoesNotBlockRequests ==
    /\ inbound = "pending" /\ startup_result = "none" => ENABLED HandleInbound
    /\ spc[1] = "gate" /\ gpc = "sleep" => ~LoopBusy

\* C13: no failure during the startup phase (namespace file, readiness poll,
\* database session, sync routine) propagates out of the startup
\* orchestrator: after_serving_starts never ends by raising, neither out of
\* the gate, nor out of the opening of a session, nor out of a routine.
C13_StartupFailuresAreContained ==
    /\ startup_result \notin {"raised_gate", "raised_session", "raised_sync"}
    /\ spc[1] = "gate" /\ gpc = "done" => gate_result \in {"Ready", "TimedOut"}

(***************************************************************************)
(* Properties of the agent adapters (checked under Spec).                  *)
(***************************************************************************)
\* C14: both adapter variants, constructed with an existing agent
\* identifier, end up bound to exactly that identifier, without the
\* initialize step having run.
C14_AgentBoundToSuppliedId ==
    op \in AgentClasses /\ pc = "done" =>
        /\ agent.agent_id = Some(agent_id_arg)
        /\ ~agent.initialized

(***************************************************************************)
(* Properties of POST /validate/test (checked under Spec).                 *)
(***************************************************************************)
\* C15 (as stated): the self-test surfaces exactly three failure kinds: a
\* timeout re-raised as the timeout kind, an unparsable reply body raised as
\* 'Invalid authentication response format', and any other failure raised
\* as 'Authentication service error'.
C15_ThreeFailureKinds ==
    op = "validate_test" /\ result.kind = "raised" =>
        \/ IsInstance(result.exc, "TimeoutException")
        \/ result.exc = InvalidFormat
        \/ result.exc = ServiceError

\* C15 (amended): a failure of the self-test is one of five kinds, each with
\* its own message: the validation error of an AuthRequest that cannot be
\* built (before any call); a timeout of the call, unchanged; a ValueError
\* raised by the call, unchanged; 'Authentication failed: <status>' for a
\* reply whose status is not 200; 'Invalid authentication response format'
\* for a 200 reply whose body does not parse; and 'Authentication service
\* error' for every other failure of the call.  A 200 reply with a valid
\* body is no failure.
C15_FailureKinds ==
    op = "validate_test" /\ pc = "done" =>
        IF call_exc # None
        THEN /\ result.kind = "raised"
             /\ IF IsInstance(Get(call_exc), "TimeoutException")
                   \/ IsInstance(Get(call_exc), "ValueError")
                THEN result.exc = Get(call_exc)
                ELSE result.exc = ServiceError
        ELSE IF response # None
        THEN IF Get(response).status_code # 200
             THEN result = Raised(Exc("ValueError", 0,
                      <<"Authentication failed: ",
                        ToString(Get(response).status_code)>>))
             ELSE IF reply_body.kind # "valid"
             THEN result = Raised(InvalidFormat)
             ELSE result.kind = "returned"
        ELSE /\ result.kind = "raised"
             /\ result.exc.type = "ValidationError"

\* A reply with a status other than 200 was received and the self-test
\* raised.
C15_Witness ==
    /\ op = "validate_test" /\ pc = "done"
    /\ response # None /\ Get(response).status_code = 401
    /\ reply_body.kind = "valid"
    /\ result.kind = "raised"

(***************************************************************************)
(* Properties of the header helpers of backend/api/llamastack.py, on the   *)
(* headers make_authorized_request built (checked under Spec).             *)
(***************************************************************************)
\* C16: a token that already starts with the 'Bearer ' scheme is the
\* Authorization value unchanged; any other token is the value with the
\* scheme prefixed exactly once; normalizing the value again changes
\* nothing.
C16_NormalizeBearer ==
    op = "validate" /\ pc # "start" =>
        LET value == headers.authorization
        IN  /\ StartsWith(api_key, BearerScheme) => value = api_key
            /\ ~StartsWith(api_key, BearerScheme) =>
                  /\ Len(value) = Len(BearerScheme) + Len(api_key)
                  /\ SubSeq(value, 1, Len(BearerScheme)) = BearerScheme
                  /\ SubSeq(value, Len(BearerScheme) + 1, Len(value)) = api_key
            /\ token_to_auth_header(value) = value

\* The headers were built from a token that carries the scheme and a
\* credential after it.
C16_Witness ==
    /\ op = "validate" /\ pc = "get"
    /\ StartsWith(api_key, BearerScheme) /\ Len(api_key) > Len(BearerScheme)
    /\ headers.authorization = api_key

\* The forwarded header the outbound set must carry for one identity key if
\* every header present on the request counts, whatever its value.
PresentHeader(h, canonical, lower) ==
    IF h[canonical] # NoHeader THEN h[canonical] ELSE h[lower]

NonEmptyHeader(h, canonical, lower) ==
    IF h[canonical] \notin {NoHeader, ""} THEN h[canonical]
    ELSE IF h[lower] \notin {NoHeader, ""} THEN h[lower]
    ELSE NoHeader

C18_TransientPollsKeepPolling ==
    [][ /\ ( /\ gpc = "loop" /\ npolls' = npolls + 1
             /\ \/ last_poll'.kind = "ApiException"
                \/ last_poll'.kind = "endpoints" /\ ~last_poll'.ready )
           => gpc' = "sleep" /\ gate_result' = "none"
        /\ gpc = "sleep"
           => /\ gpc' = "loop" /\ gate_result' = "none"
              /\ npolls' = npolls
              /\ now' >= now + interval_seconds
        /\ gpc = "loop" /\ npolls' = npolls /\ gpc' = "done"
           => /\ gate_result' = "TimedOut"
              /\ now - start_time >= timeout_seconds
      ]_vars

\* The gate sleeps after a second or later poll failed with an API error
\* other than not-found.
C18_Witness ==
    /\ gpc = "sleep" /\ npolls >= 2
    /\ last_poll.kind = "ApiException" /\ last_poll.status = 500
    /\ gate_result = "none"

(***************************************************************************)
(* Properties of wait_until_serving (checked under SelfCheckSpec).         *)
(***************************************************************************)
\* C19: the orchestrator's steps begin only after the listener was confirmed
\* accepting connections: after_serving_starts is entered only once one of
\* the at most 20 self-check polls has returned success.
C19_BeginsOnlyAfterConfirmed ==
    spc[1] \in {"start", "call_gate", "gate"} =>
        self_check_ok /\ attempts <= SelfCheckAttempts

(***************************************************************************)
(* Termination of wait_for_service_ready (checked under GateSpec).         *)
(***************************************************************************)
\* C20: for every timeout and every positive interval, on a clock that
\* advances by at least the interval in each sleep, the gate ends in Ready
\* or TimedOut, after at most ceil(timeout / interval) polls; no poll starts
\* once the elapsed time has reached the timeout, so that with a timeout of
\* 0 or less it ends TimedOut without a poll.
C20_TerminatesReadyOrTimedOut ==
    /\ gpc = "done" => gate_result \in {"Ready", "TimedOut"}
    /\ npolls >= 1 => (npolls - 1) * interval_seconds < timeout_seconds
    /\ gpc = "done" /\ timeout_seconds <= 0 =>
          gate_result = "TimedOut" /\ npolls = 0
====
